---------------------------- MODULE Spec2Model ----------------------------
(***************************************************************************)
(* Credit-gated job orchestration of seo-pro.                              *)
(*                                                                         *)
(* Part A: the confirm/run pipeline of the API                             *)
(*   (api/services/audits.py: validate_and_claim_quote,                    *)
(*    deduct_credits_atomic, refund_credits, run_audit_with_quote; and the *)
(*    route of the same name kept in api/main.py: run_audit).              *)
(*   Several request handlers run concurrently on separate process         *)
(*   instances over one shared store; every store call is one atomic step. *)
(*                                                                         *)
(*   Faults: deduct_credits may answer, be unreachable, or time out after  *)
(*   the store applied it; the update to 'approved', the insert of the     *)
(*   audit and the submission to Cloud Tasks may each raise.  The other    *)
(*   store calls succeed; in particular refund_credits follows the         *)
(*   ledger's contract of an always-succeeding credit.                     *)
(*                                                                         *)
(* Part B: the completion tracker of the orchestrator                      *)
(*   (orchestrator/scheduler.py: submit_audit_job, update_task_status,     *)
(*    update_audit_state_on_task_completion, update_audit_status).         *)
(*   Each handler is one step; _audit_state is private to an instance.     *)
(*   The completed_at column of a task row is not modelled.                *)
(*                                                                         *)
(* Part C: what surrounds the pipeline                                     *)
(*   config.py (Settings, get_settings); the DEV_MODE run                  *)
(*   (_run_audit_dev_mode); the direct analyses of services/analyses.py    *)
(*   with deduct_analysis_credits; the estimate routes with the scanner    *)
(*   and validate_url_safe; and the SDK worker's analyze as the target of  *)
(*   the run's Cloud Task.  Credits are priced as credits.py prices them.  *)
(*   URLs are records of what urlparse and ipaddress tell about them.      *)
(*                                                                         *)
(* Part D: the other operations of the services                            *)
(*   The orchestrator's submit_audit_job taken apart: its idempotency      *)
(*   check and insert as two store calls of concurrent requests, and the   *)
(*   attempts of create_http_task_with_retry for each work unit.  The      *)
(*   signing-key cache of services/auth.py (get_jwks,                      *)
(*   invalidate_jwks_cache) with its callers as coroutines of one event    *)
(*   loop.  The URL checks at the head of the three workers' /analyze.     *)
(*   The review of a credit request (services/credit_requests.py), one     *)
(*   store call per step.                                                  *)
(***************************************************************************)
EXTENDS Integers, Sequences, FiniteSets, TLC

(***************************************************************************)
(* Bounds of the model.                                                    *)
(***************************************************************************)
NumProcs == 2
MaxBalance == 2
MaxPages == 2
MaxTime == 60

(***************************************************************************)
(* Program constants.                                                      *)
(***************************************************************************)
\* timedelta(minutes=30) in create_pending_quote
QuoteTTL == 30
\* granularity of the clock: half an hour
TickMinutes == 30

\* credits.py: pricing
CalculateSiteAuditCredits(page_count) == page_count * 7
CalculatePageAuditCredits == 8
CalculateIndividualReportCredits == 1
CalculateCredits(page_count) == CalculateSiteAuditCredits(page_count)

Procs == 1..NumProcs
Owner == "owner"
Other == "other"
Users == {Owner, Other}
QuoteId == "q1"
MissingId == "q0"
QuoteIds == {QuoteId, MissingId}
NoAudit == 0
NoAnalysis == 0

\* the handler a request runs
OpClaim == "validate_and_claim_quote"
OpRun == "run_audit_with_quote"
OpLegacy == "main.run_audit"

NoResult == [status |-> 0, detail |-> "", audit_id |-> NoAudit]
HTTPException(code, text) == [status |-> code, detail |-> text, audit_id |-> NoAudit]
Response(id, st) == [status |-> 200, detail |-> st, audit_id |-> id]

VARIABLES
    now,            \* datetime.utcnow(), in minutes since the quote was created
    quote,          \* the row of pending_audits with id QuoteId
    balance,        \* users.credits_balance of Owner
    ledger,         \* credit transactions, append-only
    audits,         \* rows of the audits table created by the API; id = index
    queue,          \* audit ids with a Cloud Task enqueued for the SDK worker
    pc,             \* position of each request handler
    op,             \* which handler the request runs
    caller,         \* user_id of the request
    qid,            \* quote_id of the request
    tchk,           \* the value of utcnow() the handler compared expires_at with
    dres,           \* outcome of the handler's deduct_credits call
    pre,            \* balance the store held right before that call
    audit_id,       \* audit_id local of the handler
    failure,        \* exception the handler is unwinding with
    result,         \* response of the handler
    o_audit,        \* status of the audits row the orchestrator created ("none" before)
    tasks,          \* audit_tasks rows of that audit, by task type
    cloud_tasks,    \* task types with a message in the Cloud Tasks queue
    audit_state,    \* _audit_state[audit id] of each orchestrator instance
    o_response,     \* response of the orchestrator's last handler
    callbacks,      \* number of /task-update requests handled
    environ,        \* os.environ of the deployment: SEO_PRO_ENVIRONMENT, SEO_PRO_DEV_MODE
    settings,       \* _settings of each process (config.get_settings)
    selected,       \* len(selected_urls) of each request's body; 0 when absent or empty
    analyses,       \* rows of the analyses table; id = index
    analysis_id,    \* analysis_id local of the handler
    sent,           \* requests whose analysis was POSTed to the SDK worker
    wres,           \* what proxy_to_worker gave the handler
    quotes,         \* rows of pending_audits the estimate routes inserted
    fetched,        \* URLs the scanner sent HTTP requests for
    e_response,     \* response of the last estimate request
    analyzed,       \* audit ids whose Cloud Task the SDK worker has handled
    e_unit,         \* index of the work unit submit_audit_job is enqueuing
    e_attempt,      \* attempt of create_http_task_with_retry's loop for that unit
    e_log,          \* the create_task calls made: unit, task name, attempt, outcome
    e_handles,      \* what create_http_task_with_retry gave for each unit
    e_messages,     \* task names with a message in the Cloud Tasks queue
    s_pc,           \* position of each POST /submit handler
    s_key,          \* idempotency_key of the request
    s_audit,        \* audit_id local of the handler
    s_response,     \* status code the handler answered with
    o_audits,       \* rows of the audits table the orchestrator inserted
    s_enqueued,     \* audit ids whose tasks were enqueued
    jwks_cache,     \* _jwks_cache
    jwks_cache_time,\* _jwks_cache_time
    jwks_lock,      \* holder of _jwks_lock
    j_pc,           \* position of each get_jwks call
    j_now,          \* the local now of the call
    j_start,        \* the value of invalidated when the call began
    j_ret,          \* what the call returned
    fetches,        \* key sets the identity provider has served; the n-th one is n
    invalidated,    \* the last key set served before invalidate_jwks_cache last ran
    w_request,      \* the last /analyze request each worker handled
    cr_status,      \* status of the credit request row
    cr_pc,          \* position of each admin handler
    cr_op,          \* approve or reject
    cr_seen,        \* the status the handler read
    credited        \* add_credits calls applied for the request

runVars == <<now, quote, balance, ledger, audits, queue,
             pc, op, caller, qid, tchk, dres, pre, audit_id, failure, result>>

runVarsButPc == <<now, quote, balance, ledger, audits, queue,
                  op, caller, qid, tchk, dres, pre, audit_id, failure, result>>

trackVars == <<o_audit, tasks, cloud_tasks, audit_state, o_response, callbacks>>

cfgVars == <<environ, settings, selected>>

analysisVars == <<analyses, analysis_id, sent, wres>>

estimateVars == <<quotes, fetched, e_response>>

workerVars == <<analyzed>>

enqueueVars == <<e_unit, e_attempt, e_log, e_handles, e_messages>>

submitVars == <<s_pc, s_key, s_audit, s_response, o_audits, s_enqueued>>

jwksVars == <<jwks_cache, jwks_cache_time, jwks_lock, j_pc, j_now, j_start, j_ret,
              fetches, invalidated>>

requestVars == <<w_request, cr_status, cr_pc, cr_op, cr_seen, credited>>

moreVars == <<enqueueVars, submitVars, jwksVars, requestVars>>

extVars == <<cfgVars, analysisVars, estimateVars, workerVars, moreVars>>

vars == <<runVars, trackVars, extVars>>

----------------------------------------------------------------------------
(***************************************************************************)
(* The store's stored procedures (Ledger Client backing).                  *)
(***************************************************************************)
\* deduct_credits: decrement iff the balance suffices
DeductCredits(bal, amount) ==
    IF bal >= amount
    THEN [ok |-> TRUE, balance |-> bal - amount]
    ELSE [ok |-> FALSE, balance |-> bal]

\* refund_credits: always increments
RefundCredits(bal, amount) == bal + amount

\* p_reference_id: a quote id or an audit id
QuoteRef(q) == [table |-> "pending_audits", quote_id |-> q, audit_id |-> NoAudit]
AuditRef(a) == [table |-> "audits", quote_id |-> "", audit_id |-> a]

Transaction(amt, rtype, rid, p) ==
    [amount |-> amt, reference_type |-> rtype, reference_id |-> rid, by |-> p]

\* the transactions request p caused
TxOf(p) == {i \in 1..Len(ledger) : ledger[i].by = p}
DebitsOf(p) == {i \in TxOf(p) : ledger[i].amount < 0}
RefundsOf(p) == {i \in TxOf(p) : ledger[i].amount > 0}
JobsOf(p) == {i \in 1..Len(audits) : audits[i].by = p}

----------------------------------------------------------------------------
(***************************************************************************)
(* validate_and_claim_quote                                                *)
(***************************************************************************)
\* the comparison with its operands swapped
IsExpiredMutant(expires_at, t) == t < expires_at

\* expires_at < datetime.utcnow()
IsExpired(expires_at, t) == expires_at < t

Return(p, r) ==
    /\ pc' = [pc EXCEPT ![p] = "done"]
    /\ result' = [result EXCEPT ![p] = r]

\* a request arrives: select the quote, check the owner and the expiry
Begin(p, o, u, q) ==
    /\ pc[p] = "idle"
    /\ op' = [op EXCEPT ![p] = o]
    /\ caller' = [caller EXCEPT ![p] = u]
    /\ qid' = [qid EXCEPT ![p] = q]
    /\ IF q # QuoteId
       THEN /\ Return(p, HTTPException(404, "Quote not found"))
            /\ UNCHANGED tchk
       ELSE IF quote.user_id # u
       THEN /\ Return(p, HTTPException(403, "Not your quote"))
            /\ UNCHANGED tchk
       ELSE /\ tchk' = [tchk EXCEPT ![p] = now]
            /\ pc' = [pc EXCEPT ![p] =
                        IF IsExpired(quote.expires_at, now) THEN "expire" ELSE "claim"]
            /\ UNCHANGED result
    /\ UNCHANGED <<now, quote, balance, ledger, audits, queue, dres, pre, audit_id, failure>>
    /\ UNCHANGED <<trackVars, extVars>>

\* update({"status": "expired"}).eq("id", quote_id), then 400
MarkExpired(p) ==
    /\ pc[p] = "expire"
    /\ quote' = [quote EXCEPT !.status = "expired"]
    /\ Return(p, HTTPException(400, "Quote expired. Please request a new estimate."))
    /\ UNCHANGED <<now, balance, ledger, audits, queue, op, caller, qid, tchk, dres, pre,
                   audit_id, failure>>
    /\ UNCHANGED <<trackVars, extVars>>

\* the claim without its .eq("status", "pending") filter
ClaimMatchesMutant(q) == q.status \in {"pending", "processing"}

\* update({"status": "processing"}).eq("id", quote_id).eq("status", "pending")
ClaimMatches(q) == q.status = "pending"

\* the claim without the check of update_result.data
ClaimUncheckedMutant(p) ==
    /\ pc[p] = "claim"
    /\ quote' = IF ClaimMatches(quote) THEN [quote EXCEPT !.status = "processing"] ELSE quote
    /\ IF op[p] = OpClaim
       THEN Return(p, Response(NoAudit, "claimed"))
       ELSE /\ pc' = [pc EXCEPT ![p] = "debit"]
            /\ UNCHANGED result
    /\ UNCHANGED <<now, balance, ledger, audits, queue, op, caller, qid, tchk, dres, pre,
                   audit_id, failure>>
    /\ UNCHANGED <<trackVars, extVars>>

Claim(p) ==
    /\ pc[p] = "claim"
    /\ IF ClaimMatches(quote)
       THEN /\ quote' = [quote EXCEPT !.status = "processing"]
            /\ IF op[p] = OpClaim
               THEN Return(p, Response(NoAudit, "claimed"))
               ELSE /\ pc' = [pc EXCEPT ![p] = "debit"]
                    /\ UNCHANGED result
       ELSE /\ Return(p, HTTPException(400, "Quote already used or expired"))
            /\ UNCHANGED quote
    /\ UNCHANGED <<now, balance, ledger, audits, queue, op, caller, qid, tchk, dres, pre,
                   audit_id, failure>>
    /\ UNCHANGED <<trackVars, extVars>>

----------------------------------------------------------------------------
(***************************************************************************)
(* run_audit_with_quote (metered flow) and main.run_audit                  *)
(***************************************************************************)
DebitOutcomes == {"applied", "unavailable", "timeout"}

\* deduct_credits_atomic: the rpc either answers (debited, or insufficient),
\* or raises without having run, or raises after the store applied it
Debit(p, o) ==
    /\ pc[p] = "debit"
    /\ pre' = [pre EXCEPT ![p] = balance]
    /\ LET r == DeductCredits(balance, quote.credits_required)
           tx == Transaction(0 - quote.credits_required, "audit", QuoteRef(qid[p]), p)
       IN CASE o = "applied" /\ r.ok ->
                 /\ balance' = r.balance
                 /\ ledger' = Append(ledger, tx)
                 /\ dres' = [dres EXCEPT ![p] = "ok"]
                 /\ pc' = [pc EXCEPT ![p] = "approve"]
                 /\ UNCHANGED failure
            [] o = "applied" /\ ~r.ok ->
                 /\ dres' = [dres EXCEPT ![p] = "insufficient"]
                 /\ failure' = [failure EXCEPT ![p] =
                       HTTPException(402, <<"Insufficient credits. Need", quote.credits_required>>)]
                 /\ pc' = [pc EXCEPT ![p] = "rollback"]
                 /\ UNCHANGED <<balance, ledger>>
            [] o = "unavailable" ->
                 /\ dres' = [dres EXCEPT ![p] = "error"]
                 /\ failure' = [failure EXCEPT ![p] = HTTPException(500, "Internal Server Error")]
                 /\ pc' = [pc EXCEPT ![p] = "rollback"]
                 /\ UNCHANGED <<balance, ledger>>
            [] o = "timeout" ->
                 /\ balance' = r.balance
                 /\ ledger' = IF r.ok THEN Append(ledger, tx) ELSE ledger
                 /\ dres' = [dres EXCEPT ![p] = "unknown"]
                 /\ failure' = [failure EXCEPT ![p] = HTTPException(500, "Internal Server Error")]
                 /\ pc' = [pc EXCEPT ![p] = "rollback"]
    /\ UNCHANGED <<now, quote, audits, queue, op, caller, qid, tchk, audit_id, result>>
    /\ UNCHANGED <<trackVars, extVars>>

\* the except branch re-raising without resetting the quote
RollbackMutant(p) ==
    /\ pc[p] = "rollback"
    /\ Return(p, failure[p])
    /\ UNCHANGED <<now, quote, balance, ledger, audits, queue, op, caller, qid, tchk, dres, pre,
                   audit_id, failure>>
    /\ UNCHANGED <<trackVars, extVars>>

\* except Exception: update({"status": "pending"}).eq("id", quote_id); raise
Rollback(p) ==
    /\ pc[p] = "rollback"
    /\ quote' = [quote EXCEPT !.status = "pending"]
    /\ Return(p, failure[p])
    /\ UNCHANGED <<now, balance, ledger, audits, queue, op, caller, qid, tchk, dres, pre,
                   audit_id, failure>>
    /\ UNCHANGED <<trackVars, extVars>>

\* update({"status": "approved"}).eq("id", quote_id); the store call may raise
Approve(p, ok) ==
    /\ pc[p] = "approve"
    /\ IF ok
       THEN /\ quote' = [quote EXCEPT !.status = "approved"]
            /\ pc' = [pc EXCEPT ![p] = "create"]
            /\ UNCHANGED result
       ELSE /\ Return(p, HTTPException(500, "Internal Server Error"))
            /\ UNCHANGED quote
    /\ UNCHANGED <<now, balance, ledger, audits, queue, op, caller, qid, tchk, dres, pre,
                   audit_id, failure>>
    /\ UNCHANGED <<trackVars, extVars>>

\* page_count = len(page_urls) if page_urls else quote["page_count"], where
\* page_urls = selected_urls or the quote's metadata (estimate_audit_cost stores
\* none there); main.run_audit ignores selected_urls
PageCount(p) ==
    IF op[p] = OpRun /\ selected[p] > 0 THEN selected[p] ELSE quote.page_count

\* create_audit_record: insert into audits; the store call may raise
AuditRecord(u, credits, p) ==
    [user_id |-> u, status |-> "queued", page_count |-> PageCount(p),
     credits_used |-> credits, error_message |-> "", by |-> p]

CreateAudit(p, ok) ==
    /\ pc[p] = "create"
    /\ IF ok
       THEN /\ audits' = Append(audits, AuditRecord(caller[p], quote.credits_required, p))
            /\ audit_id' = [audit_id EXCEPT ![p] = Len(audits) + 1]
            /\ pc' = [pc EXCEPT ![p] = "submit"]
            /\ UNCHANGED result
       ELSE /\ Return(p, HTTPException(500, "Internal Server Error"))
            /\ UNCHANGED <<audits, audit_id>>
    /\ UNCHANGED <<now, quote, balance, ledger, queue, op, caller, qid, tchk, dres, pre, failure>>
    /\ UNCHANGED <<trackVars, extVars>>

\* the failure logged and swallowed, as main.run_audit does
OnSubmitFailureMutant(p) == Return(p, Response(audit_id[p], "processing"))

\* what each handler does when submit_audit_to_orchestrator raises
OnSubmitFailure(p) ==
    IF op[p] = OpRun
    THEN /\ pc' = [pc EXCEPT ![p] = "refund"]
         /\ UNCHANGED result
    ELSE Return(p, Response(audit_id[p], "processing"))

\* submit_audit_to_orchestrator: one Cloud Task to the SDK worker, or an exception
Submit(p, ok) ==
    /\ pc[p] = "submit"
    /\ IF ok
       THEN /\ queue' = queue \cup {audit_id[p]}
            /\ Return(p, Response(audit_id[p], "processing"))
       ELSE /\ OnSubmitFailure(p)
            /\ UNCHANGED queue
    /\ UNCHANGED <<now, quote, balance, ledger, audits, op, caller, qid, tchk, dres, pre,
                   audit_id, failure>>
    /\ UNCHANGED <<trackVars, extVars>>

\* the refund recorded against the quote instead of the audit
RefundMutant(p) ==
    /\ pc[p] = "refund"
    /\ balance' = RefundCredits(balance, quote.credits_required)
    /\ ledger' = Append(ledger, Transaction(quote.credits_required, "audit_refund",
                                            QuoteRef(qid[p]), p))
    /\ pc' = [pc EXCEPT ![p] = "fail_audit"]
    /\ UNCHANGED <<now, quote, audits, queue, op, caller, qid, tchk, dres, pre, audit_id,
                   failure, result>>
    /\ UNCHANGED <<trackVars, extVars>>

\* refund_credits(amount=quote["credits_required"], reference_id=audit_id)
Refund(p) ==
    /\ pc[p] = "refund"
    /\ balance' = RefundCredits(balance, quote.credits_required)
    /\ ledger' = Append(ledger, Transaction(quote.credits_required, "audit_refund",
                                            AuditRef(audit_id[p]), p))
    /\ pc' = [pc EXCEPT ![p] = "fail_audit"]
    /\ UNCHANGED <<now, quote, audits, queue, op, caller, qid, tchk, dres, pre, audit_id,
                   failure, result>>
    /\ UNCHANGED <<trackVars, extVars>>

\* update_audit_status(audit_id, "failed", error_message)
FailAudit(p) ==
    /\ pc[p] = "fail_audit"
    /\ audits' = [audits EXCEPT ![audit_id[p]] =
                    [@ EXCEPT !.status = "failed",
                              !.error_message = "Failed to submit analysis to worker queue. Credits refunded."]]
    /\ pc' = [pc EXCEPT ![p] = "fail_quote"]
    /\ UNCHANGED <<now, quote, balance, ledger, queue, op, caller, qid, tchk, dres, pre,
                   audit_id, failure, result>>
    /\ UNCHANGED <<trackVars, extVars>>

\* update({"status": "failed"}).eq("id", quote_id), then 503
FailQuote(p) ==
    /\ pc[p] = "fail_quote"
    /\ quote' = [quote EXCEPT !.status = "failed"]
    /\ Return(p, HTTPException(503, "Unable to queue analysis. Your credits have been refunded. Please try again."))
    /\ UNCHANGED <<now, balance, ledger, audits, queue, op, caller, qid, tchk, dres, pre,
                   audit_id, failure>>
    /\ UNCHANGED <<trackVars, extVars>>

BeginRun(p) == \E o \in {OpRun, OpLegacy}, u \in Users, q \in QuoteIds : Begin(p, o, u, q)

----------------------------------------------------------------------------
(***************************************************************************)
(* Orchestrator: submit_audit_job and the /task-update completion tracker  *)
(***************************************************************************)
NumInstances == 2
MaxCallbacks == 7

Instances == 1..NumInstances
\* tasks_to_create
TaskTypes == {"technical", "content", "schema", "sitemap", "programmatic", "visual"}
\* "total_tasks": 6 in the state submit_audit_job initialises
InitialTotalTasks == 6
OrchAudit == "a1"
OtherAudit == "a2"
CallbackStatuses == {"completed", "failed"}
Terminal == {"completed", "failed"}
AttributeError == 0 - 1

NoState == [present |-> FALSE, origin |-> "none", total_tasks |-> 0, completed_tasks |-> 0,
            tasks |-> {}]
\* the dict submit_audit_job stores with set_audit_state
SubmittedState ==
    [present |-> TRUE, origin |-> "submit", total_tasks |-> InitialTotalTasks,
     completed_tasks |-> 0, tasks |-> {}]
\* the dict update_audit_state_on_task_completion stores when it finds none
FreshState ==
    [present |-> TRUE, origin |-> "callback", total_tasks |-> 0, completed_tasks |-> 0,
     tasks |-> {}]

\* state.values(), in insertion order; "status" is what v.get("status") answers
\* for a dict (the tasks dict is keyed by task id, so it has no "status" key)
StateValues(st) ==
    <<[type |-> "int", status |-> "None"],
      [type |-> "int", status |-> "None"],
      [type |-> "dict", status |-> "None"]>>
    \o (IF st.origin = "submit"
        THEN <<[type |-> "str", status |-> "None"],
               [type |-> "str", status |-> "None"],
               [type |-> "str", status |-> "None"]>>
        ELSE <<>>)

\* sum(1 for v in state.values() if v.get("status") == "completed");
\* v.get raises AttributeError on a value that is not a dict
RECURSIVE CountCompleted(_)
CountCompleted(values) ==
    IF values = <<>> THEN 0
    ELSE IF Head(values).type # "dict" THEN AttributeError
    ELSE LET rest == CountCompleted(Tail(values))
         IN IF rest = AttributeError THEN AttributeError
            ELSE rest + (IF Head(values).status = "completed" THEN 1 ELSE 0)

\* update_audit_status: what it does with the state it is given
UpdateAuditStatus(st) ==
    IF ~st.present THEN "return"
    ELSE LET completed_tasks == CountCompleted(StateValues(st))
         IN IF completed_tasks = AttributeError THEN "raise"
            ELSE IF completed_tasks >= st.total_tasks /\ st.total_tasks > 0 THEN "complete"
            ELSE "return"

\* update_audit_state_on_task_completion, up to the call of update_audit_status
CountCallback(st, status) ==
    LET state == IF st.present THEN st ELSE FreshState
    IN [state EXCEPT !.total_tasks = @ + 1,
                     !.completed_tasks = IF status \in Terminal THEN @ + 1 ELSE @]

\* POST /submit on instance i; enq are the units whose Cloud Task was created
\* (create_http_task_with_retry raised for the others)
SubmitAuditJob(i, enq) ==
    /\ o_audit = "none"
    /\ o_audit' = "queued"
    /\ tasks' = [t \in TaskTypes |-> "queued"]
    /\ cloud_tasks' = enq
    /\ audit_state' = [audit_state EXCEPT ![i] = [SubmittedState EXCEPT !.tasks = enq]]
    /\ o_response' = [status |-> 200, detail |-> "queued", tasks_created |-> Cardinality(enq)]
    /\ UNCHANGED callbacks
    /\ UNCHANGED <<runVars, extVars>>

\* a task id no row of audit_tasks has
MissingTask == "missing"

\* audit_result.data of the select by task id is not empty
TaskFound(t) == t \in DOMAIN tasks /\ tasks[t] # "none"

\* the task is handed on whatever audit the callback names
TaskBelongsMutant(t, a) == TRUE

\* task["audit_id"] == audit_id; every row was inserted with the id of the
\* submitted audit
TaskBelongs(t, a) == a = OrchAudit

\* POST /task-update on instance i
UpdateTaskStatus(i, t, a, status) ==
    /\ callbacks < MaxCallbacks
    /\ callbacks' = callbacks + 1
    /\ IF ~TaskFound(t)
       THEN /\ o_response' = [status |-> 404, detail |-> "Task not found", tasks_created |-> 0]
            /\ UNCHANGED <<o_audit, tasks, audit_state>>
       ELSE IF ~TaskBelongs(t, a)
       THEN /\ o_response' = [status |-> 403, detail |-> "Task does not belong to this audit",
                              tasks_created |-> 0]
            /\ UNCHANGED <<o_audit, tasks, audit_state>>
       ELSE /\ tasks' = [tasks EXCEPT ![t] = status]
            /\ LET state == CountCallback(audit_state[i], status)
                   outcome == UpdateAuditStatus(state)
               IN CASE outcome = "raise" ->
                         /\ audit_state' = [audit_state EXCEPT ![i] = state]
                         /\ o_response' = [status |-> 500, detail |-> "AttributeError",
                                           tasks_created |-> 0]
                         /\ UNCHANGED o_audit
                    [] outcome = "complete" ->
                         /\ o_audit' = "completed"
                         /\ audit_state' = [audit_state EXCEPT ![i] = NoState]
                         /\ o_response' = [status |-> 200, detail |-> "ok", tasks_created |-> 0]
                    [] outcome = "return" ->
                         /\ audit_state' = [audit_state EXCEPT ![i] = state]
                         /\ o_response' = [status |-> 200, detail |-> "ok", tasks_created |-> 0]
                         /\ UNCHANGED o_audit
    /\ UNCHANGED cloud_tasks
    /\ UNCHANGED <<runVars, extVars>>

\* a worker reports on a task it was sent, with the ids of its payload
\* (at-least-once delivery: any number of times, in any order)
TaskUpdate(i) ==
    \E t \in cloud_tasks, status \in CallbackStatuses :
        UpdateTaskStatus(i, t, OrchAudit, status)

----------------------------------------------------------------------------
(***************************************************************************)
(* config.py: Settings and get_settings                                    *)
(***************************************************************************)
Unset == "<unset>"
\* values the deployment may give SEO_PRO_ENVIRONMENT ("prod" is not a Literal member)
EnvironmentValues == {Unset, "development", "production", "staging", "prod"}
\* values the deployment may give SEO_PRO_DEV_MODE
DevModeValues == {Unset, "true", "1", "yes", "false", "0", "no", "maybe"}

\* DEV_MODE: bool -- the strings accepted for a bool field
ParseBool(v) ==
    IF v \in {"true", "1", "yes"} THEN [ok |-> TRUE, value |-> TRUE]
    ELSE IF v \in {"false", "0", "no"} THEN [ok |-> TRUE, value |-> FALSE]
    ELSE [ok |-> FALSE, value |-> FALSE]

\* validate_environment, with the Literal type of the field
ValidateEnvironment(v) ==
    IF v \in {"development", "production", "staging"}
    THEN [ok |-> TRUE, value |-> v]
    ELSE [ok |-> FALSE, value |-> "None"]

\* the validator checking production only
ValidateDevModeMutant(v, data) ==
    IF v /\ data.ENVIRONMENT \in {"production"}
    THEN [ok |-> FALSE, value |-> v]
    ELSE [ok |-> TRUE, value |-> v]

\* validate_dev_mode; data holds the fields validated before DEV_MODE
ValidateDevMode(v, data) ==
    IF v /\ data.ENVIRONMENT \in {"production", "staging"}
    THEN [ok |-> FALSE, value |-> v]
    ELSE [ok |-> TRUE, value |-> v]

NoSettings == [loaded |-> FALSE, ENVIRONMENT |-> "None", DEV_MODE |-> FALSE]

\* Settings(): fields are validated in declaration order, ENVIRONMENT first;
\* a field that is not set takes its default without validation; a field
\* that failed is absent from the data later validators see
Settings(env) ==
    LET e == IF env.ENVIRONMENT = Unset
             THEN [ok |-> TRUE, value |-> "development"]
             ELSE ValidateEnvironment(env.ENVIRONMENT)
        data == [ENVIRONMENT |-> e.value]
        b == ParseBool(env.DEV_MODE)
        d == IF env.DEV_MODE = Unset THEN [ok |-> TRUE, value |-> FALSE]
             ELSE IF ~b.ok THEN b
             ELSE ValidateDevMode(b.value, data)
    IN IF e.ok /\ d.ok
       THEN [loaded |-> TRUE, ENVIRONMENT |-> e.value, DEV_MODE |-> d.value]
       ELSE NoSettings

\* a metered production deployment
ProductionEnviron == [ENVIRONMENT |-> "production", DEV_MODE |-> Unset]
\* a development deployment with the waiver on
DevEnviron == [ENVIRONMENT |-> "development", DEV_MODE |-> "true"]

\* settings = get_settings() at import of main.py: the process serves
\* requests once Settings() was built, and dies when it raises
GetSettings(p) ==
    /\ pc[p] = "starting"
    /\ LET s == Settings(environ)
       IN /\ settings' = [settings EXCEPT ![p] = s]
          /\ pc' = [pc EXCEPT ![p] = IF s.loaded THEN "idle" ELSE "crashed"]
    /\ UNCHANGED <<now, quote, balance, ledger, audits, queue,
                   op, caller, qid, tchk, dres, pre, audit_id, failure, result>>
    /\ UNCHANGED <<environ, selected>>
    /\ UNCHANGED <<trackVars, analysisVars, estimateVars, workerVars, moreVars>>

----------------------------------------------------------------------------
(***************************************************************************)
(* _run_audit_dev_mode, and the DEV_MODE branch of main.run_audit          *)
(***************************************************************************)
\* settings.DEV_MODE is on: select the quote and check the owner; nothing else
DevBegin(p, o, u, q) ==
    /\ pc[p] = "idle"
    /\ settings[p].DEV_MODE
    /\ op' = [op EXCEPT ![p] = o]
    /\ caller' = [caller EXCEPT ![p] = u]
    /\ qid' = [qid EXCEPT ![p] = q]
    /\ IF q # QuoteId
       THEN Return(p, HTTPException(404, "Quote not found"))
       ELSE IF quote.user_id # u
       THEN Return(p, HTTPException(403, "Not your quote"))
       ELSE /\ pc' = [pc EXCEPT ![p] = "dev_create"]
            /\ UNCHANGED result
    /\ UNCHANGED <<now, quote, balance, ledger, audits, queue, tchk, dres, pre, audit_id,
                   failure>>
    /\ UNCHANGED <<trackVars, extVars>>

\* create_audit_record(credits_used=0); the store call may raise
DevCreateAudit(p, ok) ==
    /\ pc[p] = "dev_create"
    /\ IF ok
       THEN /\ audits' = Append(audits, AuditRecord(caller[p], 0, p))
            /\ audit_id' = [audit_id EXCEPT ![p] = Len(audits) + 1]
            /\ pc' = [pc EXCEPT ![p] = "dev_submit"]
            /\ UNCHANGED result
       ELSE /\ Return(p, HTTPException(500, "Internal Server Error"))
            /\ UNCHANGED <<audits, audit_id>>
    /\ UNCHANGED <<now, quote, balance, ledger, queue, op, caller, qid, tchk, dres, pre, failure>>
    /\ UNCHANGED <<trackVars, extVars>>

\* submit_audit_to_orchestrator; an exception is logged and swallowed
DevSubmit(p, ok) ==
    /\ pc[p] = "dev_submit"
    /\ queue' = IF ok THEN queue \cup {audit_id[p]} ELSE queue
    /\ pc' = [pc EXCEPT ![p] = "dev_complete"]
    /\ UNCHANGED <<now, quote, balance, ledger, audits, op, caller, qid, tchk, dres, pre,
                   audit_id, failure, result>>
    /\ UNCHANGED <<trackVars, extVars>>

\* update({"status": "completed"}).eq("id", quote_id); return processing
DevComplete(p) ==
    /\ pc[p] = "dev_complete"
    /\ quote' = [quote EXCEPT !.status = "completed"]
    /\ Return(p, Response(audit_id[p], "processing"))
    /\ UNCHANGED <<now, balance, ledger, audits, queue, op, caller, qid, tchk, dres, pre,
                   audit_id, failure>>
    /\ UNCHANGED <<trackVars, extVars>>

DevBeginRun(p) == \E o \in {OpRun, OpLegacy}, u \in Users, q \in QuoteIds : DevBegin(p, o, u, q)

----------------------------------------------------------------------------
(***************************************************************************)
(* services/analyses.py: run_individual_analysis, run_page_audit_analysis  *)
(***************************************************************************)
OpIndividual == "run_individual_analysis"
OpPageAudit == "run_page_audit_analysis"

\* credits_to_deduct of the handler
CreditsToDeduct(p) ==
    IF op[p] = OpIndividual THEN CalculateIndividualReportCredits
    ELSE CalculatePageAuditCredits

\* "p_reference_id": None
NoRef == [table |-> "None", quote_id |-> "", audit_id |-> NoAudit]

\* get_worker_url(): 503 when SDK_WORKER_URL is not configured
AnalysisBegin(p, o, configured) ==
    /\ pc[p] = "idle"
    /\ op' = [op EXCEPT ![p] = o]
    /\ caller' = [caller EXCEPT ![p] = Owner]
    /\ IF configured
       THEN /\ pc' = [pc EXCEPT ![p] = "a_debit"]
            /\ UNCHANGED result
       ELSE Return(p, HTTPException(503, "Worker not configured"))
    /\ UNCHANGED <<now, quote, balance, ledger, audits, queue, qid, tchk, dres, pre, audit_id,
                   failure>>
    /\ UNCHANGED <<trackVars, extVars>>

\* how the deduct_credits rpc may end: it answers (data true when debited,
\* false when not), raises 'Insufficient credits', is unreachable, or times
\* out after the store applied it
AnalysisDebitOutcomes == {"answered", "raised", "unavailable", "timeout"}

\* deduct_analysis_credits; the handler does not look at what it returns
DeductAnalysisCredits(p, o) ==
    /\ pc[p] = "a_debit"
    /\ pre' = [pre EXCEPT ![p] = balance]
    /\ LET r == DeductCredits(balance, CreditsToDeduct(p))
           tx == Transaction(0 - CreditsToDeduct(p), "analysis", NoRef, p)
       IN CASE settings[p].DEV_MODE ->
                 /\ o = "answered"
                 /\ dres' = [dres EXCEPT ![p] = "waived"]
                 /\ pc' = [pc EXCEPT ![p] = "a_record"]
                 /\ UNCHANGED <<balance, ledger, result>>
            [] ~settings[p].DEV_MODE /\ o = "answered" ->
                 /\ balance' = r.balance
                 /\ ledger' = IF r.ok THEN Append(ledger, tx) ELSE ledger
                 /\ dres' = [dres EXCEPT ![p] = IF r.ok THEN "ok" ELSE "not_deducted"]
                 /\ pc' = [pc EXCEPT ![p] = "a_record"]
                 /\ UNCHANGED result
            [] ~settings[p].DEV_MODE /\ o = "raised" ->
                 /\ ~r.ok
                 /\ dres' = [dres EXCEPT ![p] = "insufficient"]
                 /\ Return(p, HTTPException(402, <<"Insufficient credits. Need",
                                                   CreditsToDeduct(p)>>))
                 /\ UNCHANGED <<balance, ledger>>
            [] ~settings[p].DEV_MODE /\ o = "unavailable" ->
                 /\ dres' = [dres EXCEPT ![p] = "error"]
                 /\ Return(p, HTTPException(500, "Internal Server Error"))
                 /\ UNCHANGED <<balance, ledger>>
            [] ~settings[p].DEV_MODE /\ o = "timeout" ->
                 /\ balance' = r.balance
                 /\ ledger' = IF r.ok THEN Append(ledger, tx) ELSE ledger
                 /\ dres' = [dres EXCEPT ![p] = "unknown"]
                 /\ Return(p, HTTPException(500, "Internal Server Error"))
    /\ UNCHANGED <<now, quote, audits, queue, op, caller, qid, tchk, audit_id, failure>>
    /\ UNCHANGED <<trackVars, extVars>>

\* _create_analysis_record: None when the rpc raises
CreateAnalysisRecord(p, ok) ==
    /\ pc[p] = "a_record"
    /\ IF ok
       THEN /\ analyses' = Append(analyses, [status |-> "processing",
                                             credits_used |-> CreditsToDeduct(p), by |-> p])
            /\ analysis_id' = [analysis_id EXCEPT ![p] = Len(analyses) + 1]
       ELSE UNCHANGED <<analyses, analysis_id>>
    /\ pc' = [pc EXCEPT ![p] = "a_proxy"]
    /\ UNCHANGED runVarsButPc
    /\ UNCHANGED <<trackVars, cfgVars, estimateVars, workerVars, sent, wres, moreVars>>

\* proxy_to_worker: the worker's result; an error dict (HTTP error status, or
\* a request error after the request was sent); or ConnectError on each of
\* the three attempts
WorkerOutcomes == {"result", "error", "connect_error"}

ProxyToWorker(p, w) ==
    /\ pc[p] = "a_proxy"
    /\ wres' = [wres EXCEPT ![p] = w]
    /\ sent' = IF w = "connect_error" THEN sent ELSE sent \cup {p}
    /\ pc' = [pc EXCEPT ![p] = "a_update"]
    /\ UNCHANGED runVarsButPc
    /\ UNCHANGED <<trackVars, cfgVars, estimateVars, workerVars, analyses, analysis_id, moreVars>>

\* _update_analysis_record, then what the handler does with the outcome:
\* run_individual_analysis refunds on an error dict and on an exception,
\* run_page_audit_analysis returns the error dict or re-raises
UpdateAnalysisRecord(p) ==
    /\ pc[p] = "a_update"
    /\ analyses' = IF analysis_id[p] = NoAnalysis THEN analyses
                   ELSE [analyses EXCEPT ![analysis_id[p]].status =
                            IF wres[p] = "result" THEN "completed" ELSE "failed"]
    /\ CASE wres[p] = "result" -> Return(p, Response(NoAudit, "result"))
         [] wres[p] # "result" /\ op[p] = OpIndividual ->
              /\ pc' = [pc EXCEPT ![p] = "a_refund"]
              /\ UNCHANGED result
         [] wres[p] = "error" /\ op[p] = OpPageAudit -> Return(p, Response(NoAudit, "error"))
         [] wres[p] = "connect_error" /\ op[p] = OpPageAudit ->
              Return(p, HTTPException(500, "Internal Server Error"))
    /\ UNCHANGED <<now, quote, balance, ledger, audits, queue, op, caller, qid, tchk, dres, pre,
                   audit_id, failure>>
    /\ UNCHANGED <<trackVars, cfgVars, estimateVars, workerVars, analysis_id, sent, wres, moreVars>>

\* the handler returns the error or the 503 without the refund_credits rpc
AnalysisRefundMutant(p) ==
    /\ pc[p] = "a_refund"
    /\ IF wres[p] = "error"
       THEN Return(p, Response(NoAudit, "error"))
       ELSE Return(p, HTTPException(503, "Analysis failed. Your credits have been refunded."))
    /\ UNCHANGED <<now, quote, balance, ledger, audits, queue, op, caller, qid, tchk, dres, pre,
                   audit_id, failure>>
    /\ UNCHANGED <<trackVars, extVars>>

\* the refund_credits rpc of run_individual_analysis, then its return or 503
AnalysisRefund(p) ==
    /\ pc[p] = "a_refund"
    /\ balance' = RefundCredits(balance, CreditsToDeduct(p))
    /\ ledger' = Append(ledger, Transaction(CreditsToDeduct(p), "individual_analysis_refund",
                                            NoRef, p))
    /\ IF wres[p] = "error"
       THEN Return(p, Response(NoAudit, "error"))
       ELSE Return(p, HTTPException(503, "Analysis failed. Your credits have been refunded."))
    /\ UNCHANGED <<now, quote, audits, queue, op, caller, qid, tchk, dres, pre, audit_id, failure>>
    /\ UNCHANGED <<trackVars, extVars>>

----------------------------------------------------------------------------
(***************************************************************************)
(* utils/url_validator.py, scanner/site.py and the estimate routes         *)
(***************************************************************************)
NoPort == 0
\* a parsed URL: ip is the class ipaddress.ip_address gives the hostname
\* ("none" when the hostname is not an IP address)
Url(scheme, hostname, ip, port) ==
    [scheme |-> scheme, hostname |-> hostname, ip |-> ip, port |-> port]

EstimateUrls ==
    {Url("https", "example.com", "none", NoPort),
     Url("https", "93.184.216.34", "global", 443),
     Url("http", "169.254.169.254", "link_local", NoPort),
     Url("http", "localhost", "none", 8080),
     Url("http", "10.0.0.5", "private", NoPort),
     Url("https", "10.example.com", "none", NoPort),
     Url("https", "example.com", "none", 8443),
     Url("ftp", "example.com", "none", NoPort)}

BLOCKED_HOSTNAMES ==
    {"169.254.169.254", "metadata.google.internal", "metadata", "localhost", "127.0.0.1",
     "0.0.0.0", "[::1]", "[0:0:0:0:0:0:0:1]", "[::]"}
ALLOWED_SCHEMES == {"http", "https"}
ALLOWED_PORTS == {80, 443, NoPort}
\* hostnames of EstimateUrls that start with one of PRIVATE_IP_PREFIXES
\* or IPV6_BLOCKED_PREFIXES
PrivatePrefixed == {"10.0.0.5", "10.example.com", "169.254.169.254"}
\* hostnames of EstimateUrls that contain "localhost" or start with "127."
LocalhostLike == {"localhost"}

\* validate_url_safe: the first element of the tuple it returns
ValidateUrlSafe(u) ==
    IF u.scheme \notin ALLOWED_SCHEMES THEN FALSE
    ELSE IF u.hostname = "" THEN FALSE
    ELSE IF u.hostname \in BLOCKED_HOSTNAMES THEN FALSE
    ELSE IF u.ip \in {"private", "loopback", "link_local", "reserved", "multicast"} THEN FALSE
    ELSE IF u.ip = "none" /\ u.hostname \in PrivatePrefixed THEN FALSE
    ELSE IF u.port \notin ALLOWED_PORTS THEN FALSE
    ELSE IF u.hostname \in LocalhostLike THEN FALSE
    ELSE TRUE

\* AuditEstimateRequest.validate_url: v.startswith(("http://", "https://"))
RequestUrlValid(u) == u.scheme \in {"http", "https"}

MaxSitemapUrls == 2
MaxLinks == 2
MaxQuotes == 1
MAX_SITEMAP_URLS == 10000
HomepageCap == 500
PagesPerLink == 5
NoSitemap == 0 - 1

Min(a, b) == IF a < b THEN a ELSE b
Max(a, b) == IF a > b THEN a ELSE b

\* what the site answers the scanner: the URLs of its sitemap (NoSitemap when
\* none is found), whether the homepage can be fetched, its internal links
ScanOutcomes ==
    [sitemap : 1..MaxSitemapUrls, homepage_ok : {TRUE}, links : {0}]
    \cup [sitemap : {NoSitemap, 0}, homepage_ok : {TRUE}, links : 0..MaxLinks]
    \cup [sitemap : {NoSitemap, 0}, homepage_ok : {FALSE}, links : {0}]

\* SiteScanner.estimate_pages
EstimatePages(u, scan) ==
    IF ~ValidateUrlSafe(u)
    THEN [page_count |-> 1, source |-> "default", error |-> TRUE, network |-> FALSE]
    ELSE IF scan.sitemap > 0
    THEN [page_count |-> Min(scan.sitemap, MAX_SITEMAP_URLS), source |-> "sitemap",
          error |-> FALSE, network |-> TRUE]
    ELSE IF scan.homepage_ok
    THEN [page_count |-> Max(1, Min(HomepageCap, scan.links * PagesPerLink)),
          source |-> "homepage", error |-> FALSE, network |-> TRUE]
    ELSE [page_count |-> 1, source |-> "homepage", error |-> TRUE, network |-> TRUE]

\* request.max_pages: absent (None), or any integer
NoMaxPages == [given |-> FALSE, value |-> 0]
MaxPagesValues == {NoMaxPages} \cup [given : {TRUE}, value : (0 - 1)..MaxPages]

\* if request.max_pages and page_count > request.max_pages: page_count = request.max_pages
ApplyMaxPages(page_count, max_pages) ==
    IF max_pages.given /\ max_pages.value # 0 /\ page_count > max_pages.value
    THEN max_pages.value
    ELSE page_count

\* the row create_pending_quote inserts
PendingQuote(u, page_count, original) ==
    [user_id |-> Owner, url |-> u, page_count |-> page_count,
     credits_required |-> CalculateCredits(page_count), status |-> "pending",
     original_page_count |-> original, expires_at |-> now + QuoteTTL]

\* the part of both estimate routes after the request was parsed
EstimateWith(u, page_count, original, network) ==
    /\ quotes' = Append(quotes, PendingQuote(u, page_count, original))
    /\ fetched' = IF network THEN fetched \cup {u} ELSE fetched
    /\ e_response' = [status |-> 200, quote_id |-> Len(quotes) + 1]

\* POST /api/v1/audit/estimate (routes/audits.py, and the copy in main.py)
EstimateAuditCost(u, max_pages, scan) ==
    /\ Len(quotes) < MaxQuotes
    /\ IF ~RequestUrlValid(u)
       THEN /\ e_response' = [status |-> 422, quote_id |-> 0]
            /\ UNCHANGED <<quotes, fetched>>
       ELSE LET page_info == EstimatePages(u, scan)
            IN EstimateWith(u, ApplyMaxPages(page_info.page_count, max_pages),
                            page_info.page_count, page_info.network)
    /\ UNCHANGED <<runVars, trackVars, cfgVars, analysisVars, workerVars, moreVars>>

\* POST /api/v1/analyze/estimate with analysis_mode = site_audit; sel is
\* len(request.selected_urls), 0 when absent or empty
EstimateAnalysis(u, max_pages, sel, scan) ==
    /\ Len(quotes) < MaxQuotes
    /\ IF ~RequestUrlValid(u)
       THEN /\ e_response' = [status |-> 422, quote_id |-> 0]
            /\ UNCHANGED <<quotes, fetched>>
       ELSE IF sel > 0
       THEN EstimateWith(u, sel, sel, FALSE)
       ELSE LET page_info == EstimatePages(u, scan)
            IN EstimateWith(u, ApplyMaxPages(page_info.page_count, max_pages),
                            page_info.page_count, page_info.network)
    /\ UNCHANGED <<runVars, trackVars, cfgVars, analysisVars, workerVars, moreVars>>

----------------------------------------------------------------------------
(***************************************************************************)
(* workers/sdk_worker.py: analyze, as the target of the run's Cloud Task   *)
(***************************************************************************)
\* the payload submit_sdk_task builds: no task_id
SdkPayload(a) == [audit_id |-> a, task_id |-> "None", analysis_type |-> "full"]

\* POST /analyze delivered by Cloud Tasks for audit a; status is the outcome
\* of the analysis.  The task row is updated only 'if request.task_id and
\* request.audit_id'; nothing writes the audits row
Analyze(a, status) ==
    /\ a \in queue
    /\ a \notin analyzed
    /\ analyzed' = analyzed \cup {a}
    /\ LET request == SdkPayload(a)
       IN IF request.task_id # "None" /\ request.task_id \in TaskTypes
          THEN tasks' = [tasks EXCEPT ![request.task_id] = status]
          ELSE UNCHANGED tasks
    /\ UNCHANGED <<o_audit, cloud_tasks, audit_state, o_response, callbacks>>
    /\ UNCHANGED <<runVars, cfgVars, analysisVars, estimateVars, moreVars>>

----------------------------------------------------------------------------
(***************************************************************************)
(* orchestrator/scheduler.py: create_http_task_with_retry, called for one  *)
(* work unit after the other by the loop of submit_audit_job               *)
(***************************************************************************)
MaxUnits == 2
\* max_retries: int = 3
MaxRetries == 3
\* client.create_task creates the task, fails in transport (transient), or
\* refuses the request as malformed (not transient)
CreateTaskOutcomes == {"created", "unavailable", "invalid_argument"}
TransientErrors == {"unavailable"}

\* task["name"]: built from a uuid drawn once per call, before the loop
TaskName(unit) == unit

\* one pass of 'for attempt in range(max_retries)' for the current unit;
\* 'except Exception' takes every error alike
CreateTask(o) ==
    /\ e_unit <= MaxUnits
    /\ e_log' = Append(e_log, [unit |-> e_unit, name |-> TaskName(e_unit),
                               attempt |-> e_attempt, outcome |-> o])
    /\ IF o = "created"
       THEN /\ e_messages' = e_messages \cup {TaskName(e_unit)}
            /\ e_handles' = [e_handles EXCEPT ![e_unit] = "task"]
            /\ e_unit' = e_unit + 1
            /\ e_attempt' = 0
       ELSE IF e_attempt < MaxRetries - 1
       THEN /\ e_attempt' = e_attempt + 1
            /\ UNCHANGED <<e_unit, e_handles, e_messages>>
       ELSE /\ e_handles' = [e_handles EXCEPT ![e_unit] = "503"]
            /\ e_unit' = e_unit + 1
            /\ e_attempt' = 0
            /\ UNCHANGED e_messages
    /\ UNCHANGED <<runVars, trackVars, cfgVars, analysisVars, estimateVars, workerVars>>
    /\ UNCHANGED <<submitVars, jwksVars, requestVars>>

----------------------------------------------------------------------------
(***************************************************************************)
(* orchestrator/scheduler.py: submit_audit_job with an idempotency key,    *)
(* one store call per step; the URL of the request is a safe one           *)
(***************************************************************************)
NoKey == "None"
IdempotencyKeys == {NoKey, "k1", "k2"}

\* the rows the select by idempotency_key gives
ExistingAudits(key) == {i \in DOMAIN o_audits : o_audits[i].idempotency_key = key}

\* POST /submit arrives: 'if idempotency_key:' select the audits with the
\* key and answer 409 when there is one
SubmitCheck(p, key) ==
    /\ s_pc[p] = "idle"
    /\ s_key' = [s_key EXCEPT ![p] = key]
    /\ IF key # NoKey /\ ExistingAudits(key) # {}
       THEN /\ s_response' = [s_response EXCEPT ![p] = 409]
            /\ s_pc' = [s_pc EXCEPT ![p] = "done"]
       ELSE /\ s_pc' = [s_pc EXCEPT ![p] = "insert"]
            /\ UNCHANGED s_response
    /\ UNCHANGED <<s_audit, o_audits, s_enqueued>>
    /\ UNCHANGED <<runVars, trackVars, cfgVars, analysisVars, estimateVars, workerVars>>
    /\ UNCHANGED <<enqueueVars, jwksVars, requestVars>>

\* the insert into audits under a fresh uuid; the store may raise
SubmitInsert(p, ok) ==
    /\ s_pc[p] = "insert"
    /\ IF ok
       THEN /\ o_audits' = Append(o_audits, [idempotency_key |-> s_key[p],
                                             status |-> "queued"])
            /\ s_audit' = [s_audit EXCEPT ![p] = Len(o_audits) + 1]
            /\ s_pc' = [s_pc EXCEPT ![p] = "tasks"]
            /\ UNCHANGED s_response
       ELSE /\ s_response' = [s_response EXCEPT ![p] = 500]
            /\ s_pc' = [s_pc EXCEPT ![p] = "done"]
            /\ UNCHANGED <<o_audits, s_audit>>
    /\ UNCHANGED <<s_key, s_enqueued>>
    /\ UNCHANGED <<runVars, trackVars, cfgVars, analysisVars, estimateVars, workerVars>>
    /\ UNCHANGED <<enqueueVars, jwksVars, requestVars>>

\* the loop over tasks_to_create and the return
SubmitTasks(p) ==
    /\ s_pc[p] = "tasks"
    /\ s_enqueued' = s_enqueued \cup {s_audit[p]}
    /\ s_response' = [s_response EXCEPT ![p] = 200]
    /\ s_pc' = [s_pc EXCEPT ![p] = "done"]
    /\ UNCHANGED <<s_key, s_audit, o_audits>>
    /\ UNCHANGED <<runVars, trackVars, cfgVars, analysisVars, estimateVars, workerVars>>
    /\ UNCHANGED <<enqueueVars, jwksVars, requestVars>>

----------------------------------------------------------------------------
(***************************************************************************)
(* services/auth.py: get_jwks and invalidate_jwks_cache.  The callers are  *)
(* coroutines of one event loop: a step runs from one await to the next.   *)
(* A key set is a non-empty dict; the n-th response of the identity        *)
(* provider is the key set n.                                              *)
(***************************************************************************)
MaxFetches == 3
NoKeys == 0
NoTime == 0 - 1
NoHolder == 0
FetchError == 0 - 1
\* _JWKS_CACHE_TTL = timedelta(minutes=15)
JWKS_CACHE_TTL == 15

\* 'if _jwks_cache and _jwks_cache_time: if now - _jwks_cache_time < _JWKS_CACHE_TTL'
CacheFresh(t) ==
    /\ jwks_cache # NoKeys
    /\ jwks_cache_time # NoTime
    /\ t - jwks_cache_time < JWKS_CACHE_TTL

\* get_jwks up to 'async with _jwks_lock'
GetJwks(p) ==
    /\ j_pc[p] \in {"idle", "done"}
    /\ j_now' = [j_now EXCEPT ![p] = now]
    /\ j_start' = [j_start EXCEPT ![p] = invalidated]
    /\ IF CacheFresh(now)
       THEN /\ j_ret' = [j_ret EXCEPT ![p] = jwks_cache]
            /\ j_pc' = [j_pc EXCEPT ![p] = "done"]
       ELSE /\ j_ret' = [j_ret EXCEPT ![p] = NoKeys]
            /\ j_pc' = [j_pc EXCEPT ![p] = "lock"]
    /\ UNCHANGED <<jwks_cache, jwks_cache_time, jwks_lock, fetches, invalidated>>
    /\ UNCHANGED <<runVars, trackVars, cfgVars, analysisVars, estimateVars, workerVars>>
    /\ UNCHANGED <<enqueueVars, submitVars, requestVars>>

\* the lock is taken and the request is sent without looking at the cache
AcquireJwksLockMutant(p) ==
    /\ j_pc[p] = "lock"
    /\ jwks_lock = NoHolder
    /\ fetches < MaxFetches
    /\ j_now' = [j_now EXCEPT ![p] = now]
    /\ jwks_lock' = p
    /\ j_pc' = [j_pc EXCEPT ![p] = "fetching"]
    /\ UNCHANGED <<jwks_cache, jwks_cache_time, j_start, j_ret, fetches, invalidated>>
    /\ UNCHANGED <<runVars, trackVars, cfgVars, analysisVars, estimateVars, workerVars>>
    /\ UNCHANGED <<enqueueVars, submitVars, requestVars>>

\* the lock is acquired: the double check, then either the cached key set is
\* returned and the lock released, or the request is sent
AcquireJwksLock(p) ==
    /\ j_pc[p] = "lock"
    /\ jwks_lock = NoHolder
    /\ j_now' = [j_now EXCEPT ![p] = now]
    /\ IF CacheFresh(now)
       THEN /\ j_ret' = [j_ret EXCEPT ![p] = jwks_cache]
            /\ j_pc' = [j_pc EXCEPT ![p] = "done"]
            /\ UNCHANGED jwks_lock
       ELSE /\ fetches < MaxFetches
            /\ jwks_lock' = p
            /\ j_pc' = [j_pc EXCEPT ![p] = "fetching"]
            /\ UNCHANGED j_ret
    /\ UNCHANGED <<jwks_cache, jwks_cache_time, j_start, fetches, invalidated>>
    /\ UNCHANGED <<runVars, trackVars, cfgVars, analysisVars, estimateVars, workerVars>>
    /\ UNCHANGED <<enqueueVars, submitVars, requestVars>>

\* client.get answers: the cache is written, the lock released and the key
\* set returned; or raise_for_status / the timeout raises out of the lock
FetchJwks(p, ok) ==
    /\ j_pc[p] = "fetching"
    /\ jwks_lock' = NoHolder
    /\ j_pc' = [j_pc EXCEPT ![p] = "done"]
    /\ IF ok
       THEN /\ fetches' = fetches + 1
            /\ jwks_cache' = fetches + 1
            /\ jwks_cache_time' = j_now[p]
            /\ j_ret' = [j_ret EXCEPT ![p] = fetches + 1]
       ELSE /\ j_ret' = [j_ret EXCEPT ![p] = FetchError]
            /\ UNCHANGED <<fetches, jwks_cache, jwks_cache_time>>
    /\ UNCHANGED <<j_now, j_start, invalidated>>
    /\ UNCHANGED <<runVars, trackVars, cfgVars, analysisVars, estimateVars, workerVars>>
    /\ UNCHANGED <<enqueueVars, submitVars, requestVars>>

\* invalidate_jwks_cache once it holds the lock
InvalidateJwksCache ==
    /\ jwks_lock = NoHolder
    /\ jwks_cache' = NoKeys
    /\ jwks_cache_time' = NoTime
    /\ invalidated' = fetches
    /\ UNCHANGED <<jwks_lock, j_pc, j_now, j_start, j_ret, fetches>>
    /\ UNCHANGED <<runVars, trackVars, cfgVars, analysisVars, estimateVars, workerVars>>
    /\ UNCHANGED <<enqueueVars, submitVars, requestVars>>

----------------------------------------------------------------------------
(***************************************************************************)
(* The /analyze endpoints of workers/http_worker.py, sdk_worker.py and     *)
(* browser_worker.py                                                       *)
(***************************************************************************)
Workers == {"http", "sdk", "browser"}
\* the URLs of the requests; the last one has no scheme ("example.com/page")
WorkerUrls == EstimateUrls \cup {Url("", "", "none", NoPort)}
NoRequest == [url |-> Url("", "", "none", NoPort), status |-> 0, fetched |-> FALSE]

\* is_valid_url_format: bool(parsed.scheme and parsed.netloc)
IsValidUrlFormat(u) == u.scheme # "" /\ u.hostname # ""

\* what validate_url_safe returns: the tuple (is_valid, error message)
ValidateUrlSafeResult(u) ==
    <<ValidateUrlSafe(u), IF ValidateUrlSafe(u) THEN "" ELSE "not allowed">>

\* bool() of a tuple: it is not empty
TupleTruthy(t) == Len(t) > 0

\* POST /analyze on worker w for the URL u: 400 on 'not is_valid_url_format(url)'
\* and on 'not validate_url_safe(url)', else the page is fetched and analysed
WorkerAnalyze(w, u) ==
    /\ w_request' = [w_request EXCEPT ![w] =
           IF ~IsValidUrlFormat(u) THEN [url |-> u, status |-> 400, fetched |-> FALSE]
           ELSE IF ~TupleTruthy(ValidateUrlSafeResult(u))
           THEN [url |-> u, status |-> 400, fetched |-> FALSE]
           ELSE [url |-> u, status |-> 200, fetched |-> TRUE]]
    /\ UNCHANGED <<cr_status, cr_pc, cr_op, cr_seen, credited>>
    /\ UNCHANGED <<runVars, trackVars, cfgVars, analysisVars, estimateVars, workerVars>>
    /\ UNCHANGED <<enqueueVars, submitVars, jwksVars>>

----------------------------------------------------------------------------
(***************************************************************************)
(* services/credit_requests.py: upload_payment_proof by the user and       *)
(* approve_credit_request, reject_credit_request by admins, all on one     *)
(* credit request, one store call per step                                 *)
(***************************************************************************)
OpApprove == "approve_credit_request"
OpReject == "reject_credit_request"
OpUpload == "upload_payment_proof"
ReviewOps == {OpApprove, OpReject, OpUpload}

\* the select of the request, and the check of the status it shows
ReviewBegin(p, o) ==
    /\ cr_pc[p] \notin {"add", "update"}
    /\ cr_op' = [cr_op EXCEPT ![p] = o]
    /\ cr_seen' = [cr_seen EXCEPT ![p] = cr_status]
    /\ cr_pc' = [cr_pc EXCEPT ![p] =
           CASE o = OpApprove -> (IF cr_status # "proof_uploaded" THEN "refused" ELSE "add")
             [] o = OpReject -> (IF cr_status = "approved" THEN "refused" ELSE "update")
             [] o = OpUpload -> (IF cr_status \notin {"pending", "invoice_sent"}
                                 THEN "refused" ELSE "update")]
    /\ UNCHANGED <<w_request, cr_status, credited>>
    /\ UNCHANGED <<runVars, trackVars, cfgVars, analysisVars, estimateVars, workerVars>>
    /\ UNCHANGED <<enqueueVars, submitVars, jwksVars>>

\* approve: the add_credits rpc; 'if not add_result.data' answers 500
AddCredits(p, ok) ==
    /\ cr_pc[p] = "add"
    /\ IF ok
       THEN /\ credited' = credited + 1
            /\ cr_pc' = [cr_pc EXCEPT ![p] = "update"]
       ELSE /\ cr_pc' = [cr_pc EXCEPT ![p] = "failed"]
            /\ UNCHANGED credited
    /\ UNCHANGED <<w_request, cr_status, cr_op, cr_seen>>
    /\ UNCHANGED <<runVars, trackVars, cfgVars, analysisVars, estimateVars, workerVars>>
    /\ UNCHANGED <<enqueueVars, submitVars, jwksVars>>

\* the update of the request by id, whatever its status is by now
ReviewUpdate(p) ==
    /\ cr_pc[p] = "update"
    /\ cr_status' = CASE cr_op[p] = OpApprove -> "approved"
                      [] cr_op[p] = OpReject -> "rejected"
                      [] cr_op[p] = OpUpload -> "proof_uploaded"
    /\ cr_pc' = [cr_pc EXCEPT ![p] = "done"]
    /\ UNCHANGED <<w_request, cr_op, cr_seen, credited>>
    /\ UNCHANGED <<runVars, trackVars, cfgVars, analysisVars, estimateVars, workerVars>>
    /\ UNCHANGED <<enqueueVars, submitVars, jwksVars>>

----------------------------------------------------------------------------
\* time passes
Tick ==
    /\ now + TickMinutes <= MaxTime
    /\ now' = now + TickMinutes
    /\ UNCHANGED <<quote, balance, ledger, audits, queue,
                   pc, op, caller, qid, tchk, dres, pre, audit_id, failure, result>>
    /\ UNCHANGED <<trackVars, extVars>>

\* every process has loaded its settings from the environment env
InitCfg(env) ==
    /\ environ = env
    /\ settings = [p \in Procs |-> Settings(env)]

\* a quote estimate_audit_cost stored at time 0 for n pages, an owner with b credits
InitBase(n, b) ==
    /\ now = 0
    /\ quote = [user_id |-> Owner, status |-> "pending", page_count |-> n,
                credits_required |-> CalculateCredits(n), expires_at |-> 0 + QuoteTTL]
    /\ balance = b
    /\ ledger = <<>>
    /\ audits = <<>>
    /\ queue = {}
    /\ op = [p \in Procs |-> OpRun]
    /\ caller = [p \in Procs |-> Owner]
    /\ qid = [p \in Procs |-> QuoteId]
    /\ tchk = [p \in Procs |-> 0]
    /\ dres = [p \in Procs |-> "none"]
    /\ pre = [p \in Procs |-> 0]
    /\ audit_id = [p \in Procs |-> NoAudit]
    /\ failure = [p \in Procs |-> NoResult]
    /\ result = [p \in Procs |-> NoResult]
    /\ o_audit = "none"
    /\ tasks = [t \in TaskTypes |-> "none"]
    /\ cloud_tasks = {}
    /\ audit_state = [i \in Instances |-> NoState]
    /\ o_response = [status |-> 0, detail |-> "", tasks_created |-> 0]
    /\ callbacks = 0
    /\ analyses = <<>>
    /\ analysis_id = [p \in Procs |-> NoAnalysis]
    /\ sent = {}
    /\ wres = [p \in Procs |-> "none"]
    /\ quotes = <<>>
    /\ fetched = {}
    /\ e_response = [status |-> 0, quote_id |-> 0]
    /\ analyzed = {}
    /\ e_unit = 1
    /\ e_attempt = 0
    /\ e_log = <<>>
    /\ e_handles = [u \in 1..MaxUnits |-> "none"]
    /\ e_messages = {}
    /\ s_pc = [p \in Procs |-> "idle"]
    /\ s_key = [p \in Procs |-> NoKey]
    /\ s_audit = [p \in Procs |-> NoAudit]
    /\ s_response = [p \in Procs |-> 0]
    /\ o_audits = <<>>
    /\ s_enqueued = {}
    /\ jwks_cache = NoKeys
    /\ jwks_cache_time = NoTime
    /\ jwks_lock = NoHolder
    /\ j_pc = [p \in Procs |-> "idle"]
    /\ j_now = [p \in Procs |-> NoTime]
    /\ j_start = [p \in Procs |-> 0]
    /\ j_ret = [p \in Procs |-> NoKeys]
    /\ fetches = 0
    /\ invalidated = 0
    /\ w_request = [w \in Workers |-> NoRequest]
    /\ cr_status = "pending"
    /\ cr_pc = [p \in Procs |-> "idle"]
    /\ cr_op = [p \in Procs |-> "none"]
    /\ cr_seen = [p \in Procs |-> "none"]
    /\ credited = 0

\* the processes of a metered production deployment, ready to serve; no
\* request carries selected_urls
InitWith(n, b) ==
    /\ InitBase(n, b)
    /\ pc = [p \in Procs |-> "idle"]
    /\ InitCfg(ProductionEnviron)
    /\ selected = [p \in Procs |-> 0]

\* the quote was priced for n pages; the owner can pay for k pages
Init ==
    \E n \in 1..MaxPages, k \in 0..MaxBalance :
        InitWith(n, CalculateCredits(k))

(***************************************************************************)
(* Concurrent validate_and_claim_quote calls on the quote.                 *)
(***************************************************************************)
BeginClaim(p) == \E u \in Users, q \in QuoteIds : Begin(p, OpClaim, u, q)

NextClaim ==
    \/ \E p \in Procs : BeginClaim(p)
    \/ \E p \in Procs : MarkExpired(p)
    \/ \E p \in Procs : Claim(p)
    \/ Tick

SpecClaim == Init /\ [][NextClaim]_vars

(***************************************************************************)
(* Concurrent POST /api/v1/audit/run requests.                             *)
(***************************************************************************)
Next ==
    \/ \E p \in Procs : BeginRun(p)
    \/ \E p \in Procs : MarkExpired(p)
    \/ \E p \in Procs : Claim(p)
    \/ \E p \in Procs, o \in DebitOutcomes : Debit(p, o)
    \/ \E p \in Procs : Rollback(p)
    \/ \E p \in Procs, ok \in BOOLEAN : Approve(p, ok)
    \/ \E p \in Procs, ok \in BOOLEAN : CreateAudit(p, ok)
    \/ \E p \in Procs, ok \in BOOLEAN : Submit(p, ok)
    \/ \E p \in Procs : Refund(p)
    \/ \E p \in Procs : FailAudit(p)
    \/ \E p \in Procs : FailQuote(p)
    \/ Tick

Spec == Init /\ [][Next]_vars

(***************************************************************************)
(* The orchestrator: one submitted audit and the callbacks of its tasks.   *)
(***************************************************************************)
NextTracker ==
    \/ \E i \in Instances, enq \in SUBSET TaskTypes : SubmitAuditJob(i, enq)
    \/ \E i \in Instances : TaskUpdate(i)

InitTracker == InitWith(1, 0)

SpecTracker == InitTracker /\ [][NextTracker]_vars

(***************************************************************************)
(* The orchestrator under /task-update requests of any sender: the body    *)
(* may name a task no row has, and an audit the task is not part of.       *)
(***************************************************************************)
\* the task ids the requests name
CallbackTasks == {"technical", MissingTask}

\* POST /task-update on instance i with any body
PostTaskUpdate(i) ==
    \E t \in CallbackTasks, a \in {OrchAudit, OtherAudit}, status \in CallbackStatuses :
        UpdateTaskStatus(i, t, a, status)

NextCallback ==
    \/ \E i \in Instances, enq \in {TaskTypes, {"technical"}} : SubmitAuditJob(i, enq)
    \/ \E i \in Instances : PostTaskUpdate(i)

SpecCallback == InitTracker /\ [][NextCallback]_vars

(***************************************************************************)
(* Start of the processes of a deployment, whatever its environment.       *)
(***************************************************************************)
InitSettings ==
    /\ InitBase(1, 0)
    /\ pc = [p \in Procs |-> "starting"]
    /\ \E e \in EnvironmentValues, d \in DevModeValues :
          environ = [ENVIRONMENT |-> e, DEV_MODE |-> d]
    /\ settings = [p \in Procs |-> NoSettings]
    /\ selected = [p \in Procs |-> 0]

NextSettings == \E p \in Procs : GetSettings(p)

SpecSettings == InitSettings /\ [][NextSettings]_vars

(***************************************************************************)
(* Concurrent POST /api/v1/audit/run requests with DEV_MODE on.            *)
(***************************************************************************)
InitDev ==
    \E n \in 1..MaxPages, k \in 0..MaxBalance :
        /\ InitBase(n, CalculateCredits(k))
        /\ pc = [p \in Procs |-> "idle"]
        /\ InitCfg(DevEnviron)
        /\ selected = [p \in Procs |-> 0]

NextDev ==
    \/ \E p \in Procs : DevBeginRun(p)
    \/ \E p \in Procs, ok \in BOOLEAN : DevCreateAudit(p, ok)
    \/ \E p \in Procs, ok \in BOOLEAN : DevSubmit(p, ok)
    \/ \E p \in Procs : DevComplete(p)
    \/ Tick

SpecDev == InitDev /\ [][NextDev]_vars

(***************************************************************************)
(* POST /api/v1/audit/run requests that may carry selected_urls.           *)
(***************************************************************************)
MaxSelected == 2

InitSelected ==
    \E n \in 1..MaxPages :
        /\ InitBase(n, CalculateCredits(MaxPages))
        /\ pc = [p \in Procs |-> "idle"]
        /\ InitCfg(ProductionEnviron)
        /\ selected \in [Procs -> 0..MaxSelected]

SpecSelected == InitSelected /\ [][Next]_vars

(***************************************************************************)
(* Concurrent individual and page-audit analysis requests of one user.     *)
(***************************************************************************)
AnalysisBalances ==
    {0, CalculateIndividualReportCredits, CalculatePageAuditCredits,
     CalculateIndividualReportCredits + CalculatePageAuditCredits}

InitAnalysis ==
    \E b \in AnalysisBalances :
        /\ InitBase(1, b)
        /\ pc = [p \in Procs |-> "idle"]
        /\ InitCfg(ProductionEnviron)
        /\ selected = [p \in Procs |-> 0]

NextAnalysis ==
    \/ \E p \in Procs, o \in {OpIndividual, OpPageAudit}, c \in BOOLEAN : AnalysisBegin(p, o, c)
    \/ \E p \in Procs, o \in AnalysisDebitOutcomes : DeductAnalysisCredits(p, o)
    \/ \E p \in Procs, ok \in BOOLEAN : CreateAnalysisRecord(p, ok)
    \/ \E p \in Procs, w \in WorkerOutcomes : ProxyToWorker(p, w)
    \/ \E p \in Procs : UpdateAnalysisRecord(p)
    \/ \E p \in Procs : AnalysisRefund(p)

SpecAnalysis == InitAnalysis /\ [][NextAnalysis]_vars

(***************************************************************************)
(* The direct analyses in a deployment of either mode: metered, or         *)
(* DEV_MODE in development.                                                *)
(***************************************************************************)
InitAnalysisModes ==
    \E b \in AnalysisBalances, env \in {ProductionEnviron, DevEnviron} :
        /\ InitBase(1, b)
        /\ pc = [p \in Procs |-> "idle"]
        /\ InitCfg(env)
        /\ selected = [p \in Procs |-> 0]

SpecAnalysisModes == InitAnalysisModes /\ [][NextAnalysis]_vars

(***************************************************************************)
(* Estimate requests of one user.                                          *)
(***************************************************************************)
NextEstimate ==
    \/ \E u \in EstimateUrls, m \in MaxPagesValues, scan \in ScanOutcomes :
          EstimateAuditCost(u, m, scan)
    \/ \E u \in EstimateUrls, m \in MaxPagesValues, sel \in 0..MaxSelected,
          scan \in ScanOutcomes : EstimateAnalysis(u, m, sel, scan)
    \/ Tick

InitEstimate == InitWith(1, 0)

SpecEstimate == InitEstimate /\ [][NextEstimate]_vars

(***************************************************************************)
(* Runs of a quote together with the SDK worker, under fair scheduling:    *)
(* a handler that can take a step takes it, and Cloud Tasks delivers every *)
(* enqueued task to a worker that finishes.                                *)
(***************************************************************************)
RunStep(p) ==
    \/ MarkExpired(p)
    \/ Claim(p)
    \/ \E o \in DebitOutcomes : Debit(p, o)
    \/ Rollback(p)
    \/ \E ok \in BOOLEAN : Approve(p, ok)
    \/ \E ok \in BOOLEAN : CreateAudit(p, ok)
    \/ \E ok \in BOOLEAN : Submit(p, ok)
    \/ Refund(p)
    \/ FailAudit(p)
    \/ FailQuote(p)

Deliver == \E a \in queue, status \in CallbackStatuses : Analyze(a, status)

NextJob ==
    \/ \E p \in Procs : BeginRun(p)
    \/ \E p \in Procs : RunStep(p)
    \/ Deliver
    \/ Tick

InitJob == InitWith(1, CalculateCredits(1))

SpecJob ==
    /\ InitJob
    /\ [][NextJob]_vars
    /\ \A p \in Procs : WF_vars(RunStep(p))
    /\ WF_vars(Deliver)

----------------------------------------------------------------------------
(***************************************************************************)
(* Properties                                                              *)
(***************************************************************************)
Expired400 == HTTPException(400, "Quote expired. Please request a new estimate.")
AlreadyClaimed400 == HTTPException(400, "Quote already used or expired")

\* the validate_and_claim_quote calls of the owner that reached the conditional update
Claimers == {p \in Procs : /\ pc[p] = "done"
                           /\ op[p] = OpClaim
                           /\ caller[p] = Owner
                           /\ qid[p] = QuoteId
                           /\ result[p] # Expired400}
Winners == {p \in Claimers : result[p] = Response(NoAudit, "claimed")}

\* C1: no double-spend.  Of the concurrent validate_and_claim_quote calls of
\* the owner on the pending quote, never more than one succeeds; and once all
\* calls have returned without the quote having expired, exactly one has
\* succeeded and every other one got 400 'Quote already used or expired'.
C1_NoDoubleSpend ==
    /\ Cardinality(Winners) <= 1
    /\ ( /\ \A p \in Procs : pc[p] \in {"idle", "done"}
         /\ Claimers # {}
         /\ quote.status # "expired" )
       => /\ Cardinality(Winners) = 1
          /\ \A p \in Claimers \ Winners : result[p] = AlreadyClaimed400
          /\ quote.status = "processing"

\* two calls of the owner have returned: one claimed, the other was refused
C1_Witness ==
    \E p, q \in Procs :
        /\ p \in Winners
        /\ q \in Claimers
        /\ result[q] = AlreadyClaimed400
        /\ quote.status = "processing"

\* request p returns in this step
ReturnsNow(p) == pc[p] # "done" /\ pc'[p] = "done"

\* run_audit_with_quote p debited, created its audit, and the submission raised
DispatchFailed(p) ==
    /\ op[p] = OpRun
    /\ dres[p] = "ok"
    /\ audit_id[p] # NoAudit
    /\ audit_id[p] \notin queue

TwoTransactions(p, debit_ref, refund_ref) ==
    \E d \in DebitsOf(p), r \in RefundsOf(p) :
        /\ TxOf(p) = {d, r}
        /\ ledger[d].amount = 0 - quote.credits_required
        /\ ledger[r].amount = quote.credits_required
        /\ ledger[d].reference_id = debit_ref
        /\ ledger[r].reference_id = refund_ref

AnsweredInsufficient(p) ==
    /\ op[p] = OpRun
    /\ dres[p] \in {"ok", "insufficient"}
    /\ pre[p] < quote.credits_required

\* C4: a metered run whose owner balance is below credits_required returns 402
\* naming the required amount, with the balance unchanged, no transaction, no
\* audit and nothing enqueued, and the quote back at pending.
C4_InsufficientFunds ==
    [][\A p \in Procs :
          (ReturnsNow(p) /\ AnsweredInsufficient(p))
          => /\ result'[p] = HTTPException(402, <<"Insufficient credits. Need",
                                                  quote.credits_required>>)
             /\ balance' = pre[p]
             /\ TxOf(p)' = {}
             /\ JobsOf(p)' = {}
             /\ audit_id'[p] = NoAudit
             /\ quote'.status = "pending"]_vars

\* a run was refused for lack of credits, and a later run claimed the quote again
C4_Witness ==
    \E p, q \in Procs :
        /\ p # q
        /\ pc[p] = "done"
        /\ AnsweredInsufficient(p)
        /\ result[p].status = 402
        /\ op[q] = OpRun
        /\ pc[q] = "debit"
        /\ quote.status = "processing"

\* C5 as stated: when a metered run with sufficient balance and a successful
\* submission returns, the balance has dropped by credits_required, the run
\* recorded one debit and created one audit charged that amount, the quote is
\* approved, the audit's status has moved to processing, and the response is
\* {audit_id, 'processing'}.
C5_RunSucceeds ==
    [][\A p \in Procs :
          (ReturnsNow(p) /\ op[p] = OpRun /\ dres[p] = "ok" /\ audit_id[p] \in queue')
          => /\ balance' = pre[p] - quote.credits_required
             /\ Cardinality(DebitsOf(p)') = 1
             /\ JobsOf(p)' = {audit_id[p]}
             /\ audits'[audit_id[p]].credits_used = quote.credits_required
             /\ quote'.status = "approved"
             /\ audits'[audit_id[p]].status = "processing"
             /\ result'[p] = Response(audit_id[p], "processing")]_vars

C10_NeverChargedUndispatched ==
    \A p \in Procs :
        (pc[p] = "done" /\ dres[p] = "ok" /\ (audit_id[p] = NoAudit \/ audit_id[p] \notin queue))
        => /\ \E r \in RefundsOf(p) : ledger[r].amount = quote.credits_required
           /\ result[p].detail # "processing"

\* C7 as stated: a /task-update replayed for a task that is already terminal,
\* with the status it already has, changes no task row, no completion
\* accounting, no audit status, and adds no transaction.
C7_ReplayIsNoOp ==
    [][\A i \in Instances, t \in TaskTypes :
          (tasks[t] \in Terminal /\ UpdateTaskStatus(i, t, OrchAudit, tasks[t]))
          => /\ tasks' = tasks
             /\ audit_state' = audit_state
             /\ o_audit' = o_audit
             /\ ledger' = ledger]_vars

\* C8 as stated: the submitted audit is completed exactly when every one of
\* its tasks is terminal and at least one of them is completed.
C8_Aggregation ==
    o_audit # "none"
    => (o_audit = "completed"
        <=> /\ \A t \in TaskTypes : tasks[t] \in Terminal
            /\ \E t \in TaskTypes : tasks[t] = "completed")

\* C9 as stated: once every task of the audit is failed, the audit is failed
\* and exactly one refund transaction has been recorded for it.
C9_RefundOnTotalFailure ==
    (o_audit # "none" /\ \A t \in TaskTypes : tasks[t] = "failed")
    => /\ o_audit = "failed"
       /\ Cardinality({k \in 1..Len(ledger) : ledger[k].reference_type = "audit_refund"}) = 1

\* the debits recorded against the quote whose run issued no refund
UnrefundedDebits ==
    {i \in 1..Len(ledger) : /\ ledger[i].amount < 0
                            /\ ledger[i].reference_id = QuoteRef(QuoteId)
                            /\ RefundsOf(ledger[i].by) = {}}

\* C12 as stated: whatever runs and retries are made, and also when a
\* deduct_credits call times out or raises after the store applied it, the
\* ledger never holds more than one un-refunded debit referencing the quote.
C12_ChargedAtMostOnce == Cardinality(UnrefundedDebits) <= 1

\* the admission errors of a run
AdmissionErrors ==
    {HTTPException(404, "Quote not found"), HTTPException(403, "Not your quote"),
     Expired400, AlreadyClaimed400}

QuoteTransitions ==
    {<<"pending", "processing">>, <<"processing", "approved">>, <<"pending", "expired">>,
     <<"processing", "pending">>, <<"pending", "failed">>, <<"processing", "failed">>}

\* C14 as stated: every change of the quote's status is one of
\* pending->processing, processing->approved, pending->expired,
\* processing->pending, pending->failed, processing->failed.
C14_QuoteStateMachine ==
    [][quote'.status # quote.status
       => <<quote.status, quote'.status>> \in QuoteTransitions]_vars

Arrives(p) == pc[p] = "idle" /\ pc'[p] # "idle" /\ caller'[p] = Owner /\ qid'[p] = QuoteId

\* C15 as stated: with the waiver on, a run still claims the quote first and
\* skips only the debit.  A run of the owner arriving after expires_at takes
\* the expiry branch; an audit is created only by the run that moved the
\* quote from pending to processing, with credits_used = 0; so never two
\* audits for one quote.
C15_WaivedRunStillClaims ==
    [][/\ \A p \in Procs :
            /\ (Arrives(p) /\ IsExpired(quote.expires_at, now)) => pc'[p] = "expire"
            /\ (JobsOf(p)' # JobsOf(p))
               => /\ quote.status \in {"processing", "approved"}
                  /\ audits'[Len(audits')].credits_used = 0
       /\ Len(audits') <= 1]_vars

\* C17 as stated: when a run carries selected_urls, the credits it debits
\* are the price of len(selected_urls) pages, and that length is the page
\* count of the audit it creates.
C17_SelectedUnitsPriced ==
    \A p \in Procs :
        (op[p] = OpRun /\ selected[p] > 0)
        => /\ \A d \in DebitsOf(p) : ledger[d].amount = 0 - CalculateCredits(selected[p])
           /\ \A a \in JobsOf(p) : audits[a].page_count = selected[p]

\* C11 as stated, for the direct analyses: an individual or page-audit
\* analysis is sent to the worker only by a request that debited its full
\* price before; a request whose deduct_credits call reported 'not deducted'
\* without raising has stopped and sent nothing.
C11_NeverDispatchedUncharged ==
    \A p \in Procs :
        /\ p \in sent => \E d \in DebitsOf(p) : ledger[d].amount = 0 - CreditsToDeduct(p)
        /\ dres[p] = "not_deducted" => p \notin sent

\* C19 as stated: every quote an estimate request created has
\* credits_required > 0 and a page count of at least 1.
C19_QuotePositive ==
    \A i \in 1..Len(quotes) :
        /\ quotes[i].credits_required > 0
        /\ quotes[i].page_count >= 1

\* C20 as stated: an estimate whose target validate_url_safe rejects is
\* refused: nothing is fetched for that target and no quote exists for it.
C20_UnsafeTargetRefused ==
    /\ \A u \in fetched : ValidateUrlSafe(u)
    /\ \A i \in 1..Len(quotes) : ValidateUrlSafe(quotes[i].url)

\* the audits row a is completed or failed
JobTerminal(a) == a <= Len(audits) /\ audits[a].status \in Terminal

\* C18 as stated: every audit a run created and enqueued for the worker
\* eventually is completed or failed, given that the queue delivers and the
\* worker finishes.
C18_EventuallyTerminal ==
    \A a \in 1..NumProcs : (a \in queue) ~> JobTerminal(a)

(***************************************************************************)
(* Enqueuing the work units of one submitted audit.                        *)
(***************************************************************************)
NextEnqueue == \E o \in CreateTaskOutcomes : CreateTask(o)

SpecEnqueue == InitTracker /\ [][NextEnqueue]_vars

(***************************************************************************)
(* Concurrent POST /submit requests, each with or without the key.         *)
(***************************************************************************)
NextSubmit ==
    \/ \E p \in Procs, key \in IdempotencyKeys : SubmitCheck(p, key)
    \/ \E p \in Procs, ok \in BOOLEAN : SubmitInsert(p, ok)
    \/ \E p \in Procs : SubmitTasks(p)

SpecSubmit == InitTracker /\ [][NextSubmit]_vars

(***************************************************************************)
(* Concurrent get_jwks calls, invalidations and the passing of time.       *)
(***************************************************************************)
\* time passes between calls: a call in progress is either runnable or in
\* a request with timeout=10.0 seconds, far below the clock's step
JwksTick ==
    /\ \A p \in Procs : j_pc[p] \in {"idle", "done"}
    /\ Tick

NextJwks ==
    \/ \E p \in Procs : GetJwks(p)
    \/ \E p \in Procs : AcquireJwksLock(p)
    \/ \E p \in Procs, ok \in BOOLEAN : FetchJwks(p, ok)
    \/ InvalidateJwksCache
    \/ JwksTick

SpecJwks == InitTracker /\ [][NextJwks]_vars

(***************************************************************************)
(* /analyze requests to the three workers.                                 *)
(***************************************************************************)
NextWorker == \E w \in Workers, u \in WorkerUrls : WorkerAnalyze(w, u)

SpecWorker == InitTracker /\ [][NextWorker]_vars

(***************************************************************************)
(* One credit request: its user uploads the proof, admins approve and      *)
(* reject it, concurrently.                                                *)
(***************************************************************************)
NextReview ==
    \/ \E p \in Procs, o \in ReviewOps : ReviewBegin(p, o)
    \/ \E p \in Procs, ok \in BOOLEAN : AddCredits(p, ok)
    \/ \E p \in Procs : ReviewUpdate(p)

SpecReview == InitTracker /\ [][NextReview]_vars

----------------------------------------------------------------------------
----------------------------------------------------------------------------
\* C22: after Submit, every unit whose enqueue failed has a task row in
\* status failed (never queued), and a submission that enqueued no unit is
\* not reported as queued.
C22_PartialDispatchPolicy ==
    o_audit # "none"
    => /\ \A t \in TaskTypes \ cloud_tasks : tasks[t] = "failed"
       /\ ~(o_response.detail = "queued" /\ o_response.tasks_created = 0)

----------------------------------------------------------------------------
\* C23: an enqueue of a work unit makes at most 3 attempts and ends with a
\* task handle or a 503; an attempt is followed by another one only when it
\* failed with a transient transport error; every attempt for a unit uses
\* the unit's one task name, and the queue holds at most one message for it.
C23_BoundedTransientRetry ==
    /\ \A k \in DOMAIN e_log : e_log[k].attempt < MaxRetries
    /\ \A u \in 1..MaxUnits : e_unit > u => e_handles[u] \in {"task", "503"}
    /\ \A k, m \in DOMAIN e_log :
          (k < m /\ e_log[k].unit = e_log[m].unit)
          => /\ e_log[k].outcome \in TransientErrors
             /\ e_log[k].name = e_log[m].name
    /\ \A u \in 1..MaxUnits : Cardinality({n \in e_messages : n = TaskName(u)}) <= 1

----------------------------------------------------------------------------
\* C24: of the submissions carrying one non-null idempotency key, at most
\* one creates an audit record and at most one has its tasks enqueued; of
\* two finished submissions with the key at most one is answered 200, and
\* one answered 409 has created nothing.
C24_IdempotentSubmission ==
    \A key \in IdempotencyKeys \ {NoKey} :
        /\ Cardinality(ExistingAudits(key)) <= 1
        /\ Cardinality(ExistingAudits(key) \cap s_enqueued) <= 1
        /\ \A p, q \in Procs :
              (p # q /\ s_key[p] = key /\ s_key[q] = key
                 /\ s_pc[p] = "done" /\ s_pc[q] = "done")
              => ~(s_response[p] = 200 /\ s_response[q] = 200)
        /\ \A p \in Procs :
              (s_key[p] = key /\ s_response[p] = 409) => s_audit[p] = NoAudit

----------------------------------------------------------------------------
\* the call of p returns at this step
JwksReturns(p) == j_pc'[p] = "done" /\ (j_pc[p] # "done" \/ GetJwks(p))

\* C25: at most one get_jwks call is fetching at any time; a fetch is under
\* way only while the cache is empty or older than its TTL, so callers that
\* found it so share one successful fetch; every call that returns a key set
\* returns the cached, fresh one; and a call that began after an
\* invalidation completed returns a key set fetched after it.
C25_SingleFlight ==
    /\ [](Cardinality({p \in Procs : j_pc[p] = "fetching"}) <= 1)
    /\ [](\A p \in Procs : j_pc[p] = "fetching" => (jwks_lock = p /\ ~CacheFresh(now)))
    /\ [][\A p \in Procs :
             (JwksReturns(p) /\ j_ret'[p] # FetchError)
             => /\ j_ret'[p] = jwks_cache'
                /\ CacheFresh(now)'
                /\ j_ret'[p] > j_start[p]]_vars

\* after an invalidation and a new fetch, one caller has returned the new
\* key set while another, which had found the cache empty, still waits for
\* the lock
C25_Witness ==
    \E p, q \in Procs :
        /\ p # q
        /\ invalidated > 0
        /\ j_pc[p] = "done" /\ j_ret[p] = jwks_cache /\ j_ret[p] > invalidated
        /\ j_pc[q] = "lock"
        /\ CacheFresh(now)

----------------------------------------------------------------------------
\* the analysis of request p was debited, its worker call gave an error
\* result or raised, and the handler has returned
FailedAfterDebit(p, o) ==
    /\ op[p] = o
    /\ dres[p] = "ok"
    /\ wres[p] \in {"error", "connect_error"}
    /\ pc[p] = "done"

C30_PageAuditRefunded ==
    \A p \in Procs :
        FailedAfterDebit(p, OpPageAudit)
        => /\ \E r \in RefundsOf(p) : ledger[r].amount = CalculatePageAuditCredits
           /\ (\A q \in Procs \ {p} : TxOf(q) = {}) => balance = pre[p]

\* C28: what the flows refunded to the user never exceeds what they debited:
\* every refund of a request comes after a debit of the same amount by the
\* same request, and no request has more refunds than debits.
C28_NoMoneyCreation ==
    \A p \in Procs :
        /\ Cardinality(RefundsOf(p)) <= Cardinality(DebitsOf(p))
        /\ \A r \in RefundsOf(p) :
              \E d \in DebitsOf(p) : d < r /\ ledger[d].amount = 0 - ledger[r].amount

----------------------------------------------------------------------------
\* C27: every worker answers 400, and fetches nothing, for a URL that
\* validate_url_safe reports as not safe.
C27_WorkersRejectUnsafe ==
    \A w \in Workers :
        (w_request[w].status # 0 /\ ~ValidateUrlSafe(w_request[w].url))
        => /\ w_request[w].status = 400
           /\ ~w_request[w].fetched

\* C29: add_credits is applied at most once for the credit request, an
\* approved request never becomes rejected, and a request that ends rejected
\* has had no credits added.
C29_CreditedAtMostOnce ==
    /\ [](credited <= 1)
    /\ [][cr_status = "approved" => cr_status' # "rejected"]_vars
    /\ []((cr_status = "rejected" /\ \A p \in Procs : cr_pc[p] \notin {"add", "update"})
          => credited = 0)

=============================================================================
